---------------------------- MODULE Spec2Model ----------------------------
(***************************************************************************)
(* gnss_exporter (src/main.rs): a scrape handler fetches a GNSS receiver's *)
(* XML status document, decodes its free-text fields and writes them into  *)
(* process-wide Prometheus gauges.                                         *)
(*                                                                         *)
(* Text is modelled as a sequence of one-character strings, so that        *)
(* splitting, trimming and number parsing are computed character by        *)
(* character.  An f64 is modelled by the exact rational n/d it denotes     *)
(* (d > 0, lowest terms), with 1/0 and -1/0 for the infinities and 0/0 for *)
(* NaN; IEEE rounding and the sign of zero are not modelled.               *)
(***************************************************************************)
EXTENDS Integers, Sequences, FiniteSets, TLC

(***************************************************************************)
(* Characters and numbers                                                  *)
(***************************************************************************)
Digit == {"0", "1", "2", "3", "4", "5", "6", "7", "8", "9"}

DigitVal(c) ==
    CASE c = "0" -> 0 [] c = "1" -> 1 [] c = "2" -> 2 [] c = "3" -> 3
      [] c = "4" -> 4 [] c = "5" -> 5 [] c = "6" -> 6 [] c = "7" -> 7
      [] c = "8" -> 8 [] c = "9" -> 9

DigitChar(n) ==
    CASE n = 0 -> "0" [] n = 1 -> "1" [] n = 2 -> "2" [] n = 3 -> "3"
      [] n = 4 -> "4" [] n = 5 -> "5" [] n = 6 -> "6" [] n = 7 -> "7"
      [] n = 8 -> "8" [] n = 9 -> "9"

AllDigits(s) == \A i \in 1..Len(s) : s[i] \in Digit

Drop(s, k) == SubSeq(s, k + 1, Len(s))

Take(s, k) == SubSeq(s, 1, k)

RECURSIVE DecVal(_)
DecVal(s) ==
    IF Len(s) = 0 THEN 0
    ELSE DecVal(Take(s, Len(s) - 1)) * 10 + DigitVal(s[Len(s)])

RECURSIVE Pow10(_)
Pow10(k) == IF k = 0 THEN 1 ELSE 10 * Pow10(k - 1)

Abs(x) == IF x < 0 THEN -x ELSE x

RECURSIVE Gcd(_, _)
Gcd(a, b) == IF b = 0 THEN a ELSE Gcd(b, a % b)

\* The sides of a Result.
Ok(v) == [tag |-> "Ok", val |-> v]

Err == [tag |-> "Err", val |-> <<>>]

Panic == [tag |-> "Panic", val |-> <<>>]

(***************************************************************************)
(* str::split_once(c): the text before and after the first c.              *)
(***************************************************************************)
Contains(s, c) == \E i \in 1..Len(s) : s[i] = c

FirstIndex(s, c) ==
    CHOOSE i \in 1..Len(s) : s[i] = c /\ \A j \in 1..(i - 1) : s[j] # c

split_once(s, c) ==
    IF Contains(s, c)
    THEN Ok(<<Take(s, FirstIndex(s, c) - 1), Drop(s, FirstIndex(s, c))>>)
    ELSE Err

(***************************************************************************)
(* str::trim_end_matches(" m"): every trailing repetition is removed.      *)
(***************************************************************************)
EndsWith(s, p) ==
    Len(s) >= Len(p) /\ SubSeq(s, Len(s) - Len(p) + 1, Len(s)) = p

RECURSIVE trim_end_matches(_, _)
trim_end_matches(s, p) ==
    IF Len(p) > 0 /\ EndsWith(s, p)
    THEN trim_end_matches(Take(s, Len(s) - Len(p)), p)
    ELSE s

(***************************************************************************)
(* str::parse::<i64>(): an optional sign, then one or more ASCII digits,   *)
(* the value within the i64 range.  The range is decided on the digits.    *)
(***************************************************************************)
I64MaxDigits == <<"9","2","2","3","3","7","2","0","3","6","8","5","4","7","7","5","8","0","7">>

I64MinDigits == <<"9","2","2","3","3","7","2","0","3","6","8","5","4","7","7","5","8","0","8">>

RECURSIVE StripZeros(_)
StripZeros(s) ==
    IF Len(s) > 1 /\ s[1] = "0" THEN StripZeros(Tail(s)) ELSE s

\* a <= b for digit strings of the same length
RECURSIVE DigitsLeq(_, _)
DigitsLeq(a, b) ==
    IF Len(a) = 0 THEN TRUE
    ELSE IF DigitVal(a[1]) < DigitVal(b[1]) THEN TRUE
    ELSE IF DigitVal(a[1]) > DigitVal(b[1]) THEN FALSE
    ELSE DigitsLeq(Tail(a), Tail(b))

MagnitudeFits(digits, limit) ==
    LET z == StripZeros(digits)
    IN  \/ Len(z) < Len(limit)
        \/ Len(z) = Len(limit) /\ DigitsLeq(z, limit)

parse_i64(s) ==
    LET signed == Len(s) > 0 /\ s[1] \in {"+", "-"}
        neg    == Len(s) > 0 /\ s[1] = "-"
        digits == IF signed THEN Tail(s) ELSE s
    IN  IF Len(digits) = 0 \/ ~AllDigits(digits) THEN Err
        ELSE IF ~MagnitudeFits(digits, IF neg THEN I64MinDigits ELSE I64MaxDigits)
        THEN Err
        ELSE Ok(IF neg THEN -DecVal(digits) ELSE DecVal(digits))

(***************************************************************************)
(* i64's Display: the shortest decimal text, "-" before a negative value.  *)
(***************************************************************************)
RECURSIVE FormatNat(_)
FormatNat(n) ==
    IF n < 10 THEN <<DigitChar(n)>>
    ELSE Append(FormatNat(n \div 10), DigitChar(n % 10))

FormatI64(n) == IF n < 0 THEN <<"-">> \o FormatNat(-n) ELSE FormatNat(n)

(***************************************************************************)
(* f64 values and the arithmetic parse_lat_long uses.                      *)
(***************************************************************************)
F(n, d) ==
    IF d = 0 THEN [n |-> IF n > 0 THEN 1 ELSE IF n < 0 THEN -1 ELSE 0, d |-> 0]
    ELSE LET g == Gcd(Abs(n), Abs(d))
             s == IF d < 0 THEN -1 ELSE 1
         IN  [n |-> s * (n \div g), d |-> s * (d \div g)]

FZero == F(0, 1)

FNaN == F(0, 0)

FInf == F(1, 0)

FInt(k) == F(k, 1)

FNeg(a) == [n |-> -a.n, d |-> a.d]

FAdd(a, b) ==
    IF a.d = 0 \/ b.d = 0
    THEN IF a.d = 0 /\ b.d = 0
         THEN (IF a.n = b.n THEN a ELSE FNaN)
         ELSE (IF a.d = 0 THEN a ELSE b)
    ELSE LET g == Gcd(a.d, b.d)
             l == (a.d \div g) * b.d
         IN  F(a.n * (l \div a.d) + b.n * (l \div b.d), l)

\* a / k for a finite k > 0
FDiv(a, k) == IF a.d = 0 THEN a ELSE F(a.n, a.d * k)

\* a * k for a finite k > 0
FMul(a, k) == IF a.d = 0 THEN a ELSE F(a.n * k, a.d)

\* sign * a, for sign in {1., -1.}
FSign(sign, a) == IF sign < 0 THEN FNeg(a) ELSE a

(***************************************************************************)
(* str::parse::<f64>(): [sign] then "inf", "infinity" or "nan" in any      *)
(* case, or digits with an optional '.', at least one digit in all, and an *)
(* optional exponent ('e' or 'E', an optional sign, one or more digits).   *)
(***************************************************************************)
Lower(c) ==
    CASE c = "I" -> "i" [] c = "N" -> "n" [] c = "F" -> "f" [] c = "T" -> "t"
      [] c = "Y" -> "y" [] c = "A" -> "a" [] OTHER -> c

LowerAll(s) == [i \in 1..Len(s) |-> Lower(s[i])]

\* the length of the longest prefix of digits
DigitPrefix(s) ==
    CHOOSE k \in 0..Len(s) :
        /\ AllDigits(Take(s, k))
        /\ (k < Len(s) => s[k + 1] \notin Digit)

ParseExponent(s) ==
    IF Len(s) = 0 THEN Ok(0)
    ELSE IF s[1] \notin {"e", "E"} THEN Err
    ELSE LET r      == Tail(s)
             signed == Len(r) > 0 /\ r[1] \in {"+", "-"}
             neg    == Len(r) > 0 /\ r[1] = "-"
             digits == IF signed THEN Tail(r) ELSE r
         IN  IF Len(digits) = 0 \/ ~AllDigits(digits) THEN Err
             ELSE Ok(IF neg THEN -DecVal(digits) ELSE DecVal(digits))

ParseDecimal(s) ==
    LET ni       == DigitPrefix(s)
        int      == Take(s, ni)
        r1       == Drop(s, ni)
        dotted   == Len(r1) > 0 /\ r1[1] = "."
        r2       == IF dotted THEN Tail(r1) ELSE r1
        nf       == IF dotted THEN DigitPrefix(r2) ELSE 0
        frac     == Take(r2, nf)
        exp      == ParseExponent(Drop(r2, nf))
        mantissa == F(DecVal(int \o frac), Pow10(nf))
    IN  IF ni + nf = 0 \/ exp.tag # "Ok" THEN Err
        ELSE IF exp.val >= 0 THEN Ok(FMul(mantissa, Pow10(exp.val)))
        ELSE Ok(FDiv(mantissa, Pow10(-exp.val)))

parse_f64(s) ==
    LET signed == Len(s) > 0 /\ s[1] \in {"+", "-"}
        neg    == Len(s) > 0 /\ s[1] = "-"
        body   == IF signed THEN Tail(s) ELSE s
        low    == LowerAll(body)
        r      == IF low \in {<<"i","n","f">>, <<"i","n","f","i","n","i","t","y">>}
                  THEN Ok(FInf)
                  ELSE IF low = <<"n","a","n">> THEN Ok(FNaN)
                  ELSE ParseDecimal(body)
    IN  IF r.tag = "Ok" /\ neg THEN Ok(FNeg(r.val)) ELSE r


(***************************************************************************)
(* parse_used_seen (src/main.rs 193-199).                                  *)
(***************************************************************************)
UsedSeen_swapped(used, seen) ==
    IF used.tag # "Ok" THEN Err
    ELSE IF seen.tag # "Ok" THEN Err
    ELSE Ok(<<seen.val, used.val>>)

\* let used = used.parse()?; let seen = seen.parse()?; Ok((used, seen))
UsedSeen(used, seen) ==
    IF used.tag # "Ok" THEN Err
    ELSE IF seen.tag # "Ok" THEN Err
    ELSE Ok(<<used.val, seen.val>>)

UsedSeenOfSplit(sp) ==
    IF sp.tag # "Ok" THEN Err
    ELSE UsedSeen(parse_i64(sp.val[1]), parse_i64(sp.val[2]))

parse_used_seen(v) == UsedSeenOfSplit(split_once(v, "/"))

(***************************************************************************)
(* parse_lat_long (src/main.rs 201-218).                                   *)
(***************************************************************************)
Hemispheres == {<<"N">>, <<"E">>, <<"S">>, <<"W">>}

\* the seconds taken unscaled
Degrees_unscaled(sign, dec, min, sec) ==
    IF dec.tag # "Ok" THEN Err
    ELSE IF min.tag # "Ok" THEN Err
    ELSE IF sec.tag # "Ok" THEN Err
    ELSE Ok(FSign(sign, FAdd(FAdd(dec.val, FDiv(min.val, 60)),
                             FDiv(sec.val, 3600))))

\* let dec = dec.parse()?; let min = min.parse()?; let sec = sec.parse()? / 1000.0;
\* Ok(sign * (dec + min / 60.0 + sec / 3600.0))
Degrees(sign, dec, min, sec) ==
    IF dec.tag # "Ok" THEN Err
    ELSE IF min.tag # "Ok" THEN Err
    ELSE IF sec.tag # "Ok" THEN Err
    ELSE Ok(FSign(sign, FAdd(FAdd(dec.val, FDiv(min.val, 60)),
                             FDiv(FDiv(sec.val, 1000), 3600))))

\* dec_min.split_at(dec_min.len() - 2): the subtraction underflows, or the
\* index is out of range, when dec_min has fewer than two characters
SplitDecMin(sign, dec_min, sec) ==
    IF Len(dec_min) < 2 THEN Panic
    ELSE Degrees(sign,
                 parse_f64(Take(dec_min, Len(dec_min) - 2)),
                 parse_f64(Drop(dec_min, Len(dec_min) - 2)),
                 parse_f64(sec))

SplitValue(sign, dot) ==
    IF dot.tag # "Ok" THEN Err
    ELSE SplitDecMin(sign, dot.val[1], dot.val[2])

SplitDir(sp) ==
    IF sp.tag # "Ok" THEN Err
    ELSE IF sp.val[1] \notin Hemispheres THEN Err
    ELSE SplitValue(IF sp.val[1] \in {<<"N">>, <<"E">>} THEN 1 ELSE -1,
                    split_once(sp.val[2], "."))

parse_lat_long(v) == SplitDir(split_once(v, " "))

(***************************************************************************)
(* update_metrics (src/main.rs 158-191), statement by statement.  Every    *)
(* gauge set is one atomic store; a program position is the name of the    *)
(* statement about to run.                                                 *)
(***************************************************************************)
AntennaStatus_swapped(ant) ==
    IF ant = <<"O","P","E","N">> THEN 1
    ELSE IF ant = <<"O","K">> THEN 0
    ELSE 2

AntennaStatus(ant) ==
    IF ant = <<"O","P","E","N">> THEN 0
    ELSE IF ant = <<"O","K">> THEN 1
    ELSE 2

\* `?` instead of `if let Ok`: a malformed field ends the update
IfLet_propagate(result, then, else) ==
    IF result.tag = "Ok" THEN then ELSE "gather"

\* if let Ok(..) = result { then }, and on to else
IfLet(result, then, else) ==
    IF result.tag = "Ok" THEN then ELSE else

\* the longitude defaulted instead of joined with and_then
and_then_unjoined(lat, long) ==
    IF lat.tag # "Ok" THEN lat
    ELSE IF long.tag = "Panic" THEN long
    ELSE IF long.tag = "Err" THEN Ok(<<lat.val, FZero>>)
    ELSE Ok(<<lat.val, long.val>>)

\* lat.and_then(|lat| Ok((lat, long?))): long is evaluated only if lat is Ok
and_then(lat, long) ==
    IF lat.tag # "Ok" THEN lat
    ELSE IF long.tag # "Ok" THEN long
    ELSE Ok(<<lat.val, long.val>>)

lat_long_pair(gnss) ==
    and_then(parse_lat_long(gnss.lat), parse_lat_long(gnss.long))

UnitSuffix == <<" ", "m">>

trim_alt(alt) == trim_end_matches(alt, UnitSuffix)

parse_alt(alt) == parse_f64(trim_alt(alt))

\* the statement at l; ant, gps, bd, gl, pair and alt are what the statements
\* decode from gnss, each evaluated only by the statement that uses it
Exec(l, m, gnss, ant, gps, bd, gl, pair, alt) ==
    CASE l = "ant" ->
           [pc |-> "sv", m |-> [m EXCEPT !.ant = ant]]
      [] l = "sv" ->
           [pc |-> "if_gps", m |-> [m EXCEPT !.sv = gnss.svused]]
      [] l = "if_gps" ->
           [pc |-> IfLet(gps, "gps_used", "if_bd"), m |-> m]
      [] l = "gps_used" ->
           [pc |-> "gps_seen", m |-> [m EXCEPT !.gps_used = gps.val[1]]]
      [] l = "gps_seen" ->
           [pc |-> "if_bd", m |-> [m EXCEPT !.gps_seen = gps.val[2]]]
      [] l = "if_bd" ->
           [pc |-> IfLet(bd, "bd_used", "if_gl"), m |-> m]
      [] l = "bd_used" ->
           [pc |-> "bd_seen", m |-> [m EXCEPT !.bd_used = bd.val[1]]]
      [] l = "bd_seen" ->
           [pc |-> "if_gl", m |-> [m EXCEPT !.bd_seen = bd.val[2]]]
      [] l = "if_gl" ->
           [pc |-> IfLet(gl, "gl_used", "if_latlong"), m |-> m]
      [] l = "gl_used" ->
           [pc |-> "gl_seen", m |-> [m EXCEPT !.gl_used = gl.val[1]]]
      [] l = "gl_seen" ->
           [pc |-> "if_latlong", m |-> [m EXCEPT !.gl_seen = gl.val[2]]]
      [] l = "if_latlong" ->
           [pc |-> IF pair.tag = "Panic" THEN "panicked"
                   ELSE IfLet(pair, "lat", "alt"),
            m |-> m]
      [] l = "lat" ->
           [pc |-> "long", m |-> [m EXCEPT !.lat = pair.val[1]]]
      [] l = "long" ->
           [pc |-> "alt", m |-> [m EXCEPT !.long = pair.val[2]]]
      [] l = "alt" ->
           [pc |-> "gather",
            m |-> IF alt.tag = "Ok" THEN [m EXCEPT !.alt = alt.val] ELSE m]

Step(l, m, gnss) ==
    Exec(l, m, gnss,
         AntennaStatus(gnss.ant),
         parse_used_seen(gnss.gpsinfo),
         parse_used_seen(gnss.bdinfo),
         parse_used_seen(gnss.glinfo),
         lat_long_pair(gnss),
         parse_alt(gnss.alt))

UpdateLabels ==
    {"ant", "sv", "if_gps", "gps_used", "gps_seen", "if_bd", "bd_used", "bd_seen",
     "if_gl", "gl_used", "gl_seen", "if_latlong", "lat", "long", "alt"}

\* update_metrics run on from s = [pc, m] to its end: the gauges it leaves,
\* and whether it returned ("gather") or panicked
RECURSIVE RunFrom(_, _)
RunFrom(s, gnss) ==
    IF s.pc \notin UpdateLabels THEN s
    ELSE RunFrom(Step(s.pc, s.m, gnss), gnss)

update_metrics(m, gnss) == RunFrom([pc |-> "ant", m |-> m], gnss)

(***************************************************************************)
(* The status document and its deserialization into Gnss (36-47, 152).     *)
(* An element of the document is its text, or Absent.                      *)
(***************************************************************************)
Absent == <<"<absent>">>

GnssFields == {"ant", "svused", "gpsinfo", "bdinfo", "glinfo", "lat", "long", "alt"}

from_str(xml) ==
    LET svused == parse_i64(xml.svused)
    IN  IF \E f \in GnssFields : xml[f] = Absent THEN Err
        ELSE IF svused.tag # "Ok" THEN Err
        ELSE Ok([xml EXCEPT !.svused = svused.val])

\* read_gnss: the fetch, then the deserialization; either error is returned
read_gnss(reply) ==
    IF reply.kind = "FetchError" THEN Err ELSE from_str(reply.xml)


(***************************************************************************)
(* Receiver texts used as inputs.                                          *)
(***************************************************************************)
T_OK == <<"O", "K">>

T_OPEN == <<"O", "P", "E", "N">>

T_FAULT == <<"F", "A", "U", "L", "T">>

T_11 == <<"1", "1">>

T_4 == <<"4">>

T_8_12 == <<"8", "/", "1", "2">>

T_3_5 == <<"3", "/", "5">>

T_0_0 == <<"0", "/", "0">>

T_2_6 == <<"2", "/", "6">>

T_1_4 == <<"1", "/", "4">>

T_5_9 == <<"5", "/", "9">>

T_8dash12 == <<"8", "-", "1", "2">>

T_slash5 == <<"/", "5">>

T_0slash == <<"0", "/">>

T_N4915 == <<"N", " ", "4", "9", "1", "5", ".", "0", "0", "0", "0", "0">>

T_E00715 == <<"E", " ", "0", "0", "7", "1", "5", ".", "0", "0", "0", "0", "0">>

T_S1230 == <<"S", " ", "1", "2", "3", "0", ".", "1", "8", "0", "0", "0">>

T_W12245 == <<"W", " ", "1", "2", "2", "4", "5", ".", "3", "6", "0", "0", "0">>

T_N4915_nospace == <<"N", "4", "9", "1", "5", ".", "0", "0", "0", "0", "0">>

T_E00715_nospace == <<"E", "0", "0", "7", "1", "5", ".", "0", "0", "0", "0", "0">>

T_N5_123 == <<"N", " ", "5", ".", "1", "2", "3">>

T_N_dot5 == <<"N", " ", ".", "5">>

T_E7_25 == <<"E", " ", "7", ".", "2", "5">>

T_E0715_nodot == <<"E", " ", "0", "7", "1", "5">>

T_200m == <<"2", "0", "0", " ", "m">>

T_123_4 == <<"1", "2", "3", ".", "4">>

T_123_4m == <<"1", "2", "3", ".", "4", " ", "m">>

T_garbage == <<"g", "a", "r", "b", "a", "g", "e">>

T_200mm == <<"2", "0", "0", " ", "m", " ", "m">>

(***************************************************************************)
(* What the target can answer: no answer (a fetch error), or a document.   *)
(***************************************************************************)
DocA ==
    [ant |-> T_OK, svused |-> T_11, gpsinfo |-> T_8_12, bdinfo |-> T_3_5,
     glinfo |-> T_0_0, lat |-> T_N4915, long |-> T_E00715, alt |-> T_200m]

DocB ==
    [ant |-> T_OPEN, svused |-> T_4, gpsinfo |-> T_2_6, bdinfo |-> T_1_4,
     glinfo |-> T_5_9, lat |-> T_S1230, long |-> T_W12245, alt |-> T_123_4]

\* the document of the end-to-end example: no svused, no space in lat and long
DocE2E ==
    [ant |-> T_OK, svused |-> Absent, gpsinfo |-> T_8_12, bdinfo |-> T_3_5,
     glinfo |-> T_0_0, lat |-> T_N4915_nospace, long |-> T_E00715_nospace,
     alt |-> T_200m]

\* a body that is not a status document
DocEmpty == [f \in GnssFields |-> Absent]

VariantsOfA ==
    {[DocA EXCEPT !.ant = T_FAULT],
     [DocA EXCEPT !.gpsinfo = T_8dash12],
     [DocA EXCEPT !.bdinfo = T_slash5],
     [DocA EXCEPT !.glinfo = T_0slash],
     [DocA EXCEPT !.lat = T_N4915_nospace],
     [DocA EXCEPT !.lat = T_N5_123],
     [DocA EXCEPT !.long = T_E00715_nospace],
     [DocA EXCEPT !.long = T_E7_25],
     [DocA EXCEPT !.lat = T_N4915_nospace, !.long = T_E00715_nospace],
     [DocA EXCEPT !.alt = T_garbage],
     [DocA EXCEPT !.alt = T_200mm],
     [DocA EXCEPT !.gpsinfo = T_8dash12, !.lat = T_N_dot5]}

VariantsOfB ==
    {[DocB EXCEPT !.gpsinfo = T_8dash12],
     [DocB EXCEPT !.long = T_E0715_nodot],
     [DocB EXCEPT !.alt = T_garbage],
     [DocB EXCEPT !.alt = T_123_4m]}

Documents == {DocA, DocB, DocE2E} \cup VariantsOfA \cup VariantsOfB

FetchError == [kind |-> "FetchError", xml |-> DocEmpty]

Text(xml) == [kind |-> "Text", xml |-> xml]

\* the answers drawn for a sequence of requests
SeqReplies == {FetchError} \cup {Text(x) : x \in Documents}

\* the answers drawn for concurrent requests
ConcReplies ==
    {FetchError, Text(DocA), Text(DocB), Text([DocB EXCEPT !.lat = T_N5_123])}

(***************************************************************************)
(* The handler (src/main.rs 111-136), one invocation per request.          *)
(***************************************************************************)
NumReq == 2

Req == 1..NumReq

VARIABLES
    metric,   \* MetricState: the registered gauges
    pc,       \* pc[r]: where request r's handler stands
    reply,    \* reply[r]: what the target answers to request r's fetch
    gnss,     \* gnss[r]: what read_gnss returned to request r
    prev,     \* prev[r]: the gauges as they were when r entered update_metrics
    resp,     \* resp[r]: the response to request r
    call      \* one call of a field parser: its name, argument and result

vars == <<metric, pc, reply, gnss, prev, resp, call>>

Gauges ==
    {"ant", "sv", "gps_used", "gps_seen", "bd_used", "bd_seen", "gl_used",
     "gl_seen", "lat", "long", "alt"}

\* the gauges as main registers them: every one is 0
InitialMetric ==
    [ant |-> 0, sv |-> 0, gps_used |-> 0, gps_seen |-> 0, bd_used |-> 0,
     bd_seen |-> 0, gl_used |-> 0, gl_seen |-> 0,
     lat |-> FZero, long |-> FZero, alt |-> FZero]

None == [tag |-> "None", val |-> <<>>]

Pending == [status |-> "pending", body |-> InitialMetric]

\* the handler's task panicked: the connection closes with no response
Aborted == [status |-> "aborted", body |-> InitialMetric]

NoCall == [fn |-> "none", arg |-> <<>>, ret |-> None]

HandlerInit ==
    /\ metric = InitialMetric
    /\ pc = [r \in Req |-> "idle"]
    /\ reply = [r \in Req |-> FetchError]
    /\ gnss = [r \in Req |-> None]
    /\ prev = [r \in Req |-> InitialMetric]
    /\ resp = [r \in Req |-> Pending]

Init == HandlerInit /\ call = NoCall

\* a scrape request arrives and its fetch is issued
Request(r, rep) ==
    /\ pc[r] = "idle"
    /\ pc' = [pc EXCEPT ![r] = "read_gnss"]
    /\ reply' = [reply EXCEPT ![r] = rep]
    /\ UNCHANGED <<metric, gnss, prev, resp, call>>

\* read_gnss(...).await.expect("failed to read GNSS XML")
ReadGnss(r) ==
    /\ pc[r] = "read_gnss"
    /\ \E res \in {read_gnss(reply[r])} :
          /\ gnss' = [gnss EXCEPT ![r] = res]
          /\ IF res.tag = "Ok"
             THEN /\ pc' = [pc EXCEPT ![r] = "ant"]
                  /\ prev' = [prev EXCEPT ![r] = metric]
                  /\ UNCHANGED resp
             ELSE /\ pc' = [pc EXCEPT ![r] = "panicked"]
                  /\ resp' = [resp EXCEPT ![r] = Aborted]
                  /\ UNCHANGED prev
    /\ UNCHANGED <<metric, reply, call>>

\* the next statement of update_metrics(&metric, gnss)
Update(r) ==
    /\ pc[r] \in UpdateLabels
    /\ \E s \in {Step(pc[r], metric, gnss[r].val)} :
          /\ metric' = s.m
          /\ pc' = [pc EXCEPT ![r] = s.pc]
          /\ resp' = IF s.pc = "panicked"
                     THEN [resp EXCEPT ![r] = Aborted]
                     ELSE resp
    /\ UNCHANGED <<reply, gnss, prev, call>>

\* prometheus::gather(), the encoding and the response
Gather(r) ==
    /\ pc[r] = "gather"
    /\ resp' = [resp EXCEPT ![r] = [status |-> "200", body |-> metric]]
    /\ pc' = [pc EXCEPT ![r] = "done"]
    /\ UNCHANGED <<metric, reply, gnss, prev, call>>

Next ==
    \E r \in Req :
        \/ \E rep \in ConcReplies : Request(r, rep)
        \/ ReadGnss(r)
        \/ Update(r)
        \/ Gather(r)

\* requests on concurrent worker threads
Spec == Init /\ [][Next]_vars

Finished(r) == pc[r] \in {"done", "panicked"}

\* request r arrives when every earlier one has ended and no later one began
SeqRequest(r, rep) ==
    /\ \A q \in Req : q < r => Finished(q)
    /\ \A q \in Req : q > r => pc[q] = "idle"
    /\ Request(r, rep)

SeqNext ==
    \E r \in Req :
        \/ \E rep \in SeqReplies : SeqRequest(r, rep)
        \/ ReadGnss(r)
        \/ Update(r)
        \/ Gather(r)

\* a sequence of requests that do not overlap
SeqSpec == Init /\ [][SeqNext]_vars

(***************************************************************************)
(* The field parsers on their own: one call of parse_used_seen or of       *)
(* parse_lat_long on an argument drawn from the texts below.               *)
(***************************************************************************)
MaxLen == 4

MaxDeg == 2

MaxFrac == 2

MaxIntDigits == 2

Strings(A, lo, hi) == UNION {[1..k -> A] : k \in lo..hi}

ParseAlphabet == {"N", "X", " ", "5", ".", "/", "-"}

CoordDigits == {"0", "1", "5"}

RatioDigits == {"0", "1", "9"}

HemiTokens == Hemispheres \cup {<<"X">>, <<"n">>, <<>>, <<"N", "E">>}

\* "<h> <D><MM>.<F>", the hemisphere token right or wrong, F empty or not
CoordTexts ==
    {h \o <<" ">> \o d \o mm \o <<".">> \o f :
        h \in HemiTokens, d \in Strings(CoordDigits, 1, MaxDeg),
        mm \in Strings(CoordDigits, 2, 2), f \in Strings(CoordDigits, 0, MaxFrac)}

IntTexts ==
    {sg \o d : sg \in {<<>>, <<"-">>, <<"+">>},
               d \in Strings(RatioDigits, 1, MaxIntDigits)}

\* "<u>/<s>"
RatioTexts == {u \o <<"/">> \o t : u \in IntTexts, t \in IntTexts}

ParseInputs == Strings(ParseAlphabet, 0, MaxLen) \cup CoordTexts \cup RatioTexts

ParseInit ==
    /\ HandlerInit
    /\ call \in {[fn |-> "none", arg |-> a, ret |-> None] : a \in ParseInputs}

CallParseUsedSeen ==
    /\ call.fn = "none"
    /\ call' = [call EXCEPT !.fn = "parse_used_seen",
                            !.ret = parse_used_seen(call.arg)]
    /\ UNCHANGED <<metric, pc, reply, gnss, prev, resp>>

CallParseLatLong ==
    /\ call.fn = "none"
    /\ call' = [call EXCEPT !.fn = "parse_lat_long",
                            !.ret = parse_lat_long(call.arg)]
    /\ UNCHANGED <<metric, pc, reply, gnss, prev, resp>>

ParseNext == CallParseUsedSeen \/ CallParseLatLong

ParseSpec == ParseInit /\ [][ParseNext]_vars

(***************************************************************************)
(* Claims about the parsers, under ParseSpec.                              *)
(***************************************************************************)
\* an optional sign, then one or more digits
IsIntegerText(t) ==
    LET d == IF Len(t) > 0 /\ t[1] \in {"+", "-"} THEN Tail(t) ELSE t
    IN  Len(d) > 0 /\ AllDigits(d)

\* the text without a '+', without leading zeros, and "0" for a zero
NormalForm(t) ==
    LET neg == t[1] = "-"
        z   == StripZeros(IF t[1] \in {"+", "-"} THEN Tail(t) ELSE t)
    IN  IF z = <<"0">> \/ ~neg THEN z ELSE <<"-">> \o z

UsedText(a) == Take(a, FirstIndex(a, "/") - 1)

SeenText(a) == Drop(a, FirstIndex(a, "/"))

WellFormedRatio(a) ==
    Contains(a, "/") /\ IsIntegerText(UsedText(a)) /\ IsIntegerText(SeenText(a))

CanonicalRatio(a) ==
    /\ WellFormedRatio(a)
    /\ NormalForm(UsedText(a)) = UsedText(a)
    /\ NormalForm(SeenText(a)) = SeenText(a)

format_used_seen(pair) == FormatI64(pair[1]) \o <<"/">> \o FormatI64(pair[2])

\* C9 as stated: every well-formed "<u>/<s>" is parsed and formats back to
\* itself; every other text is a MalformedField error.
C9_RoundTripEveryWellFormed ==
    call.fn = "parse_used_seen" =>
        IF WellFormedRatio(call.arg)
        THEN call.ret.tag = "Ok" /\ format_used_seen(call.ret.val) = call.arg
        ELSE call.ret = Err

\* C9 amended: every well-formed "<u>/<s>" is parsed to exactly (u, s), the
\* integers its sides denote; the pair formats back to the input when both
\* sides are written without '+', without leading zeros and without "-0";
\* a text with no '/' or with a side that is no integer is a MalformedField
\* error.
C9_ParseUsedSeen ==
    call.fn = "parse_used_seen" =>
        IF WellFormedRatio(call.arg)
        THEN /\ call.ret.tag = "Ok"
             /\ FormatI64(call.ret.val[1]) = NormalForm(UsedText(call.arg))
             /\ FormatI64(call.ret.val[2]) = NormalForm(SeenText(call.arg))
             /\ CanonicalRatio(call.arg) =>
                    format_used_seen(call.ret.val) = call.arg
        ELSE call.ret = Err

C9_Witness ==
    /\ call.fn = "parse_used_seen"
    /\ CanonicalRatio(call.arg)
    /\ call.ret = Ok(<<-10, 9>>)

\* the value part "<D><MM>.<F>" of a coordinate text
CoordValue(a) == Drop(a, 2)

CoordDecMin(a) == Take(CoordValue(a), FirstIndex(CoordValue(a), ".") - 1)

CoordFrac(a) == Drop(CoordValue(a), FirstIndex(CoordValue(a), "."))

\* "<h> <D><MM>.<F>": h one of N, S, E, W, D at least one digit, MM two
\* digits, F at least minFrac digits
CoordForm(a, minFrac) ==
    /\ Len(a) >= 2
    /\ <<a[1]>> \in Hemispheres
    /\ a[2] = " "
    /\ Contains(CoordValue(a), ".")
    /\ Len(CoordDecMin(a)) >= 3
    /\ AllDigits(CoordDecMin(a))
    /\ AllDigits(CoordFrac(a))
    /\ Len(CoordFrac(a)) >= minFrac

\* sign(h) * (D + MM/60 + (F/1000)/3600), in units of 1/3600000 degree
CoordDegrees(a) ==
    LET dm == CoordDecMin(a)
        D  == DecVal(Take(dm, Len(dm) - 2))
        MM == DecVal(Drop(dm, Len(dm) - 2))
        Fr == DecVal(CoordFrac(a))
        sg == IF a[1] \in {"N", "E"} THEN 1 ELSE -1
    IN  F(sg * (D * 3600000 + MM * 60000 + Fr), 3600000)

OtherHemisphere(a) ==
    Contains(a, " ") /\ Take(a, FirstIndex(a, " ") - 1) \notin Hemispheres

\* C8 as stated: for every "<h> <D><MM>.<F>" with F any digit string, the
\* empty one included, parse_lat_long returns sign * (D + MM/60 + seconds/3600)
\* with seconds = F/1000; for another hemisphere token it returns an error.
C8_EveryFraction ==
    call.fn = "parse_lat_long" =>
        /\ CoordForm(call.arg, 0) => call.ret = Ok(CoordDegrees(call.arg))
        /\ OtherHemisphere(call.arg) => call.ret = Err

\* C8 amended: the same for F of at least one digit.
C8_ParseLatLong ==
    call.fn = "parse_lat_long" =>
        /\ CoordForm(call.arg, 1) => call.ret = Ok(CoordDegrees(call.arg))
        /\ OtherHemisphere(call.arg) => call.ret = Err

C8_Witness ==
    /\ call.fn = "parse_lat_long"
    /\ CoordForm(call.arg, 1)
    /\ call.arg[1] = "S"
    /\ call.ret = Ok(F(-(15 * 3600000 + 10 * 60000 + 55), 3600000))

(***************************************************************************)
(* Claims about the handler.                                               *)
(***************************************************************************)
\* request r's document was deserialized: update_metrics was entered
Entered(r) == gnss[r].tag = "Ok"

\* no later request has touched the gauges
Latest(r) == pc[r] # "idle" /\ \A q \in Req : q > r => pc[q] \in {"idle", "read_gnss"}

\* update_metrics was entered and has returned or panicked
UpdateEnded(r) == Entered(r) /\ pc[r] \in {"gather", "done", "panicked"}

\* C1: for every deserialized status, whatever its texts, update_metrics runs
\* to completion: the request does not end in a panic.
C1_UpdateRunsToCompletion ==
    \A r \in Req : Entered(r) => pc[r] # "panicked"

\* C2: a request whose fetch or deserialization failed is answered (an error
\* status, or the prior snapshot): its handler does not crash without a
\* response.
C2_FailedReadIsAnswered ==
    \A r \in Req : gnss[r].tag = "Err" => resp[r].status # "aborted"

Constellations ==
    {[field |-> "gpsinfo", used |-> "gps_used", seen |-> "gps_seen"],
     [field |-> "bdinfo", used |-> "bd_used", seen |-> "bd_seen"],
     [field |-> "glinfo", used |-> "gl_used", seen |-> "gl_seen"]}

WellFormedInfos == {T_8_12, T_2_6}

\* C3: in a request whose gpsinfo, bdinfo or glinfo is malformed, that
\* constellation's two gauges keep their previous values and every other
\* gauge ends as it would have with the field well-formed.
C3_FailOpen ==
    \A r \in Req : UpdateEnded(r) /\ Latest(r) =>
        \A c \in Constellations :
            parse_used_seen(gnss[r].val[c.field]).tag # "Ok" =>
                /\ metric[c.used] = prev[r][c.used]
                /\ metric[c.seen] = prev[r][c.seen]
                /\ \A w \in WellFormedInfos :
                     \E h \in {update_metrics(prev[r], [gnss[r].val EXCEPT ![c.field] = w])} :
                        \A g \in Gauges \ {c.used, c.seen} : metric[g] = h.m[g]

\* a second request with a malformed gpsinfo: the GPS gauges keep the first
\* request's values, the BeiDou gauges change
C3_Witness ==
    \E r \in Req :
        /\ UpdateEnded(r) /\ Latest(r)
        /\ parse_used_seen(gnss[r].val.gpsinfo).tag # "Ok"
        /\ prev[r].gps_used # 0
        /\ metric.gps_used = prev[r].gps_used
        /\ metric.bd_used # prev[r].bd_used

BothParse(r) ==
    /\ parse_lat_long(gnss[r].val.lat).tag = "Ok"
    /\ parse_lat_long(gnss[r].val.long).tag = "Ok"

\* C4: within one request the latitude and longitude gauges are written if
\* and only if both lat and long parse; otherwise both keep their previous
\* values.
C4_LatLongPaired ==
    \A r \in Req : Entered(r) /\ Latest(r) /\ pc[r] \notin {"lat", "long"} =>
        IF pc[r] \in {"alt", "gather", "done", "panicked"} /\ BothParse(r)
        THEN /\ metric.lat = parse_lat_long(gnss[r].val.lat).val
             /\ metric.long = parse_lat_long(gnss[r].val.long).val
        ELSE /\ metric.lat = prev[r].lat
             /\ metric.long = prev[r].long

\* a parseable latitude beside an unparseable longitude: neither is written
C4_Witness ==
    \E r \in Req :
        /\ UpdateEnded(r) /\ Latest(r)
        /\ parse_lat_long(gnss[r].val.lat).tag = "Ok"
        /\ parse_lat_long(gnss[r].val.long).tag = "Err"
        /\ metric.lat # parse_lat_long(gnss[r].val.lat).val
        /\ metric.lat # FZero
        /\ metric.lat = prev[r].lat /\ metric.long = prev[r].long

\* C5: whenever the snapshot can be read, the latitude and longitude gauges
\* hold the pair decoded from one request's document, or both are initial.
C5_LatLongFromOneRequest ==
    (\E r \in Req : pc[r] = "gather") =>
        \/ metric.lat = InitialMetric.lat /\ metric.long = InitialMetric.long
        \/ \E q \in Req :
              /\ Entered(q)
              /\ BothParse(q)
              /\ metric.lat = parse_lat_long(gnss[q].val.lat).val
              /\ metric.long = parse_lat_long(gnss[q].val.long).val

\* what request q decodes for gauge g from its document, if its field parses
DecodedGauge(q, g) ==
    LET doc == gnss[q].val
    IN  CASE g = "ant" -> Ok(AntennaStatus(doc.ant))
          [] g = "sv" -> Ok(doc.svused)
          [] g \in {"gps_used", "bd_used", "gl_used", "gps_seen", "bd_seen", "gl_seen"} ->
               LET c == CHOOSE c \in Constellations : g \in {c.used, c.seen}
                   p == parse_used_seen(doc[c.field])
               IN  IF p.tag # "Ok" THEN Err
                   ELSE Ok(IF g = c.used THEN p.val[1] ELSE p.val[2])
          [] g \in {"lat", "long"} ->
               IF ~BothParse(q) THEN Err
               ELSE Ok(parse_lat_long(doc[g]).val)
          [] g = "alt" ->
               LET body == trim_end_matches(doc.alt, UnitSuffix)
               IN  IF parse_f64(body).tag # "Ok" THEN Err ELSE parse_f64(body)

\* the requests that fetched, deserialized and parsed the field of gauge g
Decoders(g) ==
    {q \in Req : Finished(q) /\ Entered(q) /\ DecodedGauge(q, g).tag = "Ok"}

Max(S) == CHOOSE x \in S : \A y \in S : y <= x

\* C6: after a sequence of requests each gauge holds the value decoded by
\* the most recent request that parsed its field, or its initial value.
C6_LastWriteWins ==
    (\A r \in Req : pc[r] = "idle" \/ Finished(r)) =>
        \A g \in Gauges :
            metric[g] = IF Decoders(g) = {} THEN InitialMetric[g]
                        ELSE DecodedGauge(Max(Decoders(g)), g).val

\* the gauges the end-to-end example lists
E2EGauges ==
    [ant |-> 1, gps_used |-> 8, gps_seen |-> 12, bd_used |-> 3, bd_seen |-> 5,
     gl_used |-> 0, gl_seen |-> 0, lat |-> F(4925, 100), long |-> F(725, 100),
     alt |-> FInt(200)]

\* C7 as stated: the document with exactly ant, gpsinfo, bdinfo, glinfo,
\* lat="N4915.00000", long="E00715.00000" and alt yields the listed gauges.
C7_EndToEndAsStated ==
    \A r \in Req : reply[r] = Text(DocE2E) /\ Finished(r) /\ Latest(r) =>
        \A g \in DOMAIN E2EGauges : metric[g] = E2EGauges[g]

\* C7 amended: the document that also carries svused (11) and has a space
\* after the hemisphere letter of lat and long is answered with the listed
\* gauges, and the total is 11.
C7_EndToEnd ==
    \A r \in Req : reply[r] = Text(DocA) /\ Finished(r) /\ Latest(r) =>
        /\ pc[r] = "done"
        /\ \A g \in DOMAIN E2EGauges : metric[g] = E2EGauges[g]
        /\ metric.sv = 11
        /\ resp[r] = [status |-> "200", body |-> metric]

C7_Witness ==
    \E r \in Req :
        /\ reply[r] = Text(DocA) /\ pc[r] = "done" /\ Latest(r)
        /\ prev[r].ant = 0 /\ prev[r].gps_used = 2
        /\ metric.lat = F(197, 4)

\* a decimal number: an optional sign, digits with at most one '.'
IsDecimalText(t) ==
    LET b == IF Len(t) > 0 /\ t[1] \in {"+", "-"} THEN Tail(t) ELSE t
    IN  /\ \A i \in 1..Len(b) : b[i] \in Digit \cup {"."}
        /\ \E i \in 1..Len(b) : b[i] \in Digit
        /\ Cardinality({i \in 1..Len(b) : b[i] = "."}) <= 1

DecimalValue(t) ==
    LET IsDigit(c) == c \in Digit
        sg == IF t[1] = "-" THEN -1 ELSE 1
        fr == IF Contains(t, ".") THEN Len(t) - FirstIndex(t, ".") ELSE 0
    IN  F(sg * DecVal(SelectSeq(t, IsDigit)), Pow10(fr))

\* the alt text without one " m" suffix
AltNumber(t) == IF EndsWith(t, UnitSuffix) THEN Take(t, Len(t) - 2) ELSE t

\* C10: an alt that is a decimal number, with or without the suffix " m",
\* sets the altitude gauge to that number; any other alt leaves the gauge at
\* its previous value, and the other gauges end as with a well-formed alt.
C10_Altitude ==
    \A r \in Req : UpdateEnded(r) /\ Latest(r) =>
        /\ IF IsDecimalText(AltNumber(gnss[r].val.alt))
           THEN metric.alt = DecimalValue(AltNumber(gnss[r].val.alt))
           ELSE metric.alt = prev[r].alt
        /\ \E h \in {update_metrics(prev[r], [gnss[r].val EXCEPT !.alt = T_200m])} :
              \A g \in Gauges \ {"alt"} : metric[g] = h.m[g]

=============================================================================
